---- MODULE Spec2Model ----
(***************************************************************************)
(* Seat reservation and ticket lifecycle of the train booking service.     *)
(*                                                                         *)
(* The store is the SQLite database named by Settings.get_db_url           *)
(* (src/app/config.py:25).  Every request works through its own            *)
(* AsyncSession; each `await session.commit()` is one atomic write of the  *)
(* store, and the event loop may run any other request between two awaits. *)
(* The specifications:                                                     *)
(*   Spec         the HTTP handlers create_ticket and delete_ticket of     *)
(*                src/app/api/tickets.py, run by concurrent requests;      *)
(*   SpecRepo     concurrent callers of the SeatRepository operations of   *)
(*                src/app/repositories/ticket_repository.py;               *)
(*   SpecAbort    Spec with requests cancelled inside create_ticket;       *)
(*   SpecTicket   TicketService called directly, and pay_ticket;           *)
(*   SpecPricing  TicketService.calculate_price;                           *)
(*   SpecQuote    the calculate-price handler next to priced bookings;     *)
(*   SpecCancel   delete_ticket on tickets stored by TicketService;        *)
(*   SpecAdmin    the create_train and create_wagon handlers;              *)
(*   SpecLock     try_reserve_seat statement by statement, with the lock;  *)
(*   SpecEndpoint create_ticket with the call of line 273 as written;      *)
(*   SpecRefs     create_ticket with more than one train.                  *)
(***************************************************************************)
EXTENDS Integers, FiniteSets, Sequences, TLC

\* ------------------------------------------------------------------ bounds
NumSeats == 1
NumReqs == 2
MaxTicketId == 2
MaxTrainId == 2
MaxWagonId == 2

SeatIds == 1..NumSeats
NoSeat == 0
SeatInputs == SeatIds \cup {NoSeat}
Reqs == 1..NumReqs
TicketIds == 1..MaxTicketId
Trains == {1}
Wagons == {1}
TrainInputs == {0, 1}
WagonInputs == {0, 1}

VARIABLES seats, tickets, pc, loc, result, winners, trains, wagons

vars == <<seats, tickets, pc, loc, result, winners, trains, wagons>>

\* ------------------------------------------------------------- seat state
\* Seat.is_available defaults to True, Seat.is_reserved to False.
Free == [is_available |-> TRUE, is_reserved |-> FALSE]

Held == [is_available |-> FALSE, is_reserved |-> TRUE]

\* SeatRepository.get_seat: the row, or None when absent.
None == [absent |-> TRUE]

get_seat(st, seat_id) == IF seat_id \in DOMAIN st THEN st[seat_id] ELSE None

\* release_seat with only is_reserved cleared.
release_seat_reserved_only(st, seat_id) ==
    IF seat_id \in DOMAIN st
    THEN [st EXCEPT ![seat_id].is_reserved = FALSE]
    ELSE st

\* SeatRepository.release_seat: both flags written, nothing when the seat is absent.
release_seat(st, seat_id) ==
    IF get_seat(st, seat_id) /= None
    THEN [st EXCEPT ![seat_id] = [is_available |-> TRUE, is_reserved |-> FALSE]]
    ELSE st

\* SeatRepository.reserve_seat: unconditional hold.
reserve_seat(st, seat_id) ==
    IF get_seat(st, seat_id) /= None
    THEN [st EXCEPT ![seat_id] = [is_available |-> FALSE, is_reserved |-> TRUE]]
    ELSE st

\* SeatRepository.update_seat_availability: only is_available is written.
update_seat_availability(st, seat_id, is_available) ==
    IF get_seat(st, seat_id) /= None
    THEN [st EXCEPT ![seat_id].is_available = is_available]
    ELSE st

\* The check of line 139 without its `seat.is_reserved` part.
try_reserve_passes_available_only(seat) ==
    /\ seat /= None
    /\ seat.is_available

\* try_reserve_seat, line 139: `if not seat or not seat.is_available or
\* seat.is_reserved: return False`; this is the negation of that condition.
try_reserve_passes(seat) ==
    /\ seat /= None
    /\ seat.is_available
    /\ ~seat.is_reserved

\* try_reserve_seat, lines 143-145: the flags written by the commit.  The UPDATE
\* is keyed by seat id only, it does not re-check the flags it read.
try_reserve_write(st, seat_id) ==
    [st EXCEPT ![seat_id] = [is_available |-> FALSE, is_reserved |-> TRUE]]

\* try_reserve_seat, lines 139-149, from the row the SELECT returned: the value
\* returned and the store after it.  `committed` is FALSE when the commit raises
\* (except branch: rollback, return False).
try_reserve_commit(st, seat_id, seat, committed) ==
    IF try_reserve_passes(seat) /\ committed
    THEN [ret |-> TRUE, st |-> try_reserve_write(st, seat_id)]
    ELSE [ret |-> FALSE, st |-> st]

\* ----------------------------------------------------------- ticket store
\* Ticket.id is an INTEGER PRIMARY KEY of a SQLite table (no AUTOINCREMENT):
\* the store hands out one more than the largest id currently in the table.
MaxOf(S) == CHOOSE x \in S : \A y \in S : y <= x

NextTicketId(tk) == IF DOMAIN tk = {} THEN 1 ELSE MaxOf(DOMAIN tk) + 1

\* TicketService.create_ticket builds the row with is_paid=False and the train,
\* wagon and seat ids of the request body; TicketRepository.create_ticket adds
\* and commits it.
create_ticket_row(tk, ticket_data) ==
    LET id == NextTicketId(tk)
    IN  [t \in DOMAIN tk \cup {id} |->
            IF t = id
            THEN [seat_id |-> ticket_data.seat_id, is_paid |-> FALSE,
                  train_id |-> ticket_data.train_id, wagon_id |-> ticket_data.wagon_id]
            ELSE tk[t]]

\* TicketRepository.delete_ticket: DELETE ... WHERE id = ticket_id.
delete_ticket_row(tk, ticket_id) == [t \in DOMAIN tk \ {ticket_id} |-> tk[t]]

\* ---------------------------------------------------------------- requests
\* The train and the wagon the store starts with: train 2 of the sample data
\* (base price 2000, in thousandths; times counted in hours) and a coupe wagon of
\* it (multiplier 1.5, in tenths) that holds every seat.
SampleTrain == [base_price |-> 2000000, departure_time |-> 2, arrival_time |-> 6]

SampleWagon ==
    [train_id |-> 1, wagon_type |-> "coupe", price_multiplier |-> 15, seats |-> SeatIds]

NoLoc == [op |-> "none", seat |-> NoSeat, tid |-> 0, snap |-> None, seat_reserved |-> FALSE]

NoTickets == [t \in {} |-> [seat_id |-> NoSeat, is_paid |-> FALSE]]

Init ==
    /\ seats = [s \in SeatIds |-> Free]
    /\ tickets = NoTickets
    /\ pc = [r \in Reqs |-> "idle"]
    /\ loc = [r \in Reqs |-> NoLoc]
    /\ result = [r \in Reqs |-> "none"]
    /\ winners = [s \in SeatIds |-> {}]
    /\ trains = [t \in Trains |-> SampleTrain]
    /\ wagons = [w \in Wagons |-> SampleWagon]

CanStart(r) == pc[r] = "idle"

\* The operation answers: its locals are gone, the answer is all that is left.
Finish(r, op, seat_id, res) ==
    /\ pc' = [pc EXCEPT ![r] = "done"]
    /\ loc' = [loc EXCEPT ![r] = [op |-> op, seat |-> seat_id, tid |-> 0, snap |-> None, seat_reserved |-> FALSE]]
    /\ result' = [result EXCEPT ![r] = res]

Goto(r, label) ==
    /\ pc' = [pc EXCEPT ![r] = label]
    /\ UNCHANGED <<loc, result>>

\* An exception inside the handler's try block: control passes to the except
\* block of api/tickets.py:290, which uses seat_id only.
Raise(r) ==
    /\ pc' = [pc EXCEPT ![r] = "compensate"]
    /\ loc' = [loc EXCEPT ![r].tid = 0]
    /\ UNCHANGED result

\* The response has been handed to the caller; the slot takes the next request.
Return(r) ==
    /\ pc[r] = "done"
    /\ pc' = [pc EXCEPT ![r] = "idle"]
    /\ loc' = [loc EXCEPT ![r] = NoLoc]
    /\ result' = [result EXCEPT ![r] = "none"]
    /\ UNCHANGED <<seats, tickets, winners, trains, wagons>>

\* ------------------------------------------------- create_ticket (handler)
\* Lookups that check the train only.
create_ticket_not_found_train_only(train_id, wagon_id) == train_id \notin DOMAIN trains

\* api/tickets.py:263-270: `if not train` and `if not wagon`, each raising 404.
create_ticket_not_found(train_id, wagon_id) ==
    train_id \notin DOMAIN trains \/ wagon_id \notin DOMAIN wagons

\* api/tickets.py:262-270: train and wagon lookups, 404 when either is absent.
\* The handler keeps the train and the wagon it found for the steps that follow.
\* The request body names its train among train_ids.
create_ticket_lookups(r, train_ids) ==
    /\ \E t \in train_ids, w \in WagonInputs, s \in SeatInputs :
          IF create_ticket_not_found(t, w)
          THEN Finish(r, "create", NoSeat, "404")
          ELSE /\ pc' = [pc EXCEPT ![r] = "try_select"]
               /\ loc' = [loc EXCEPT ![r] = [op |-> "create", seat |-> s, tid |-> 0, snap |-> None,
                                              seat_reserved |-> FALSE, train |-> t, wagon |-> w]]
               /\ result' = [result EXCEPT ![r] = "none"]
    /\ UNCHANGED <<seats, tickets, winners, trains, wagons>>

CreateStart(r) ==
    /\ CanStart(r)
    /\ create_ticket_lookups(r, TrainInputs)

\* api/tickets.py:273 calls seat_service.try_reserve_seat; the Seat Reservation
\* Manager's TryReserve is SeatRepository.try_reserve_seat.
SeatService_try_reserve_seat(st, seat_id, seat, committed) ==
    try_reserve_commit(st, seat_id, seat, committed)

\* try_reserve_seat, lines 132-137: the SELECT.  SQLite has no FOR UPDATE, the
\* statement reads the row and holds no lock once it has returned.
CreateTrySelect(r) ==
    /\ pc[r] = "try_select"
    /\ pc' = [pc EXCEPT ![r] = "try_commit"]
    /\ loc' = [loc EXCEPT ![r].snap = get_seat(seats, loc[r].seat)]
    /\ UNCHANGED <<seats, tickets, result, winners, trains, wagons>>

\* The reservation check moved inside the try block: a refusal is handled by the
\* except block like any other failure.
create_ticket_on_reserve_in_try(seat_reserved) ==
    IF seat_reserved THEN "price" ELSE "compensate"

\* api/tickets.py:274-277: where the handler goes with TryReserve's answer.
create_ticket_on_reserve(seat_reserved) ==
    IF seat_reserved THEN "price" ELSE "unavailable"

\* try_reserve_seat, lines 139-149, then api/tickets.py:274-275.
CreateTryCommit(r) ==
    /\ pc[r] = "try_commit"
    /\ \E committed \in BOOLEAN :
          LET s == loc[r].seat
              out == SeatService_try_reserve_seat(seats, s, loc[r].snap, committed)
              next == create_ticket_on_reserve(out.ret)
          IN  /\ seats' = out.st
              /\ IF next = "unavailable"
                 THEN Finish(r, "create", NoSeat, "400")
                 ELSE /\ pc' = [pc EXCEPT ![r] = next]
                      /\ loc' = [loc EXCEPT ![r].snap = None, ![r].seat_reserved = out.ret]
                      /\ UNCHANGED result
    /\ UNCHANGED <<tickets, winners, trains, wagons>>

\* api/tickets.py:279 calculate_price, then TicketService.create_ticket up to
\* its reserve_seat (services/ticket_service.py:166-187).  Either may raise.
CreatePrice(r) ==
    /\ pc[r] = "price"
    /\ \/ /\ seats' = reserve_seat(seats, loc[r].seat)
          /\ Goto(r, "insert")
       \/ /\ UNCHANGED seats
          /\ Raise(r)
    /\ UNCHANGED <<tickets, winners, trains, wagons>>

\* TicketRepository.create_ticket, lines 156-157: add and commit, or the commit
\* raises and nothing is stored.
CreateInsert(r) ==
    /\ pc[r] = "insert"
    /\ \/ /\ NextTicketId(tickets) <= MaxTicketId
          /\ tickets' = create_ticket_row(tickets, [train_id |-> loc[r].train,
                                                    wagon_id |-> loc[r].wagon,
                                                    seat_id |-> loc[r].seat])
          /\ pc' = [pc EXCEPT ![r] = "respond"]
          /\ loc' = [loc EXCEPT ![r].tid = NextTicketId(tickets)]
          /\ UNCHANGED result
       \/ /\ UNCHANGED tickets
          /\ Raise(r)
    /\ UNCHANGED <<seats, winners, trains, wagons>>

\* TicketRepository.create_ticket line 158 (refresh) and api/tickets.py:289
\* (response): still inside the handler's try, after the ticket is committed.
\* The refresh reads the row back by its id and raises when it is gone.
CreateRespond(r) ==
    /\ pc[r] = "respond"
    /\ \/ /\ loc[r].tid \in DOMAIN tickets
          /\ Finish(r, "create", NoSeat, "200")
       \/ Raise(r)
    /\ UNCHANGED <<seats, tickets, winners, trains, wagons>>

\* An except block that only logs and raises.
create_ticket_on_error_no_release(st, seat_id) == st

\* api/tickets.py:290-292: the except block's compensating release.
create_ticket_on_error(st, seat_id) == release_seat(st, seat_id)

\* api/tickets.py:290-294: release the seat, then raise the 500.
CreateCompensate(r) ==
    /\ pc[r] = "compensate"
    /\ seats' = create_ticket_on_error(seats, loc[r].seat)
    /\ Finish(r, "create", NoSeat, "500")
    /\ UNCHANGED <<tickets, winners, trains, wagons>>

\* ------------------------------------------------- delete_ticket (handler)
\* TicketRepository.get_ticket: the row, or None when absent.
get_ticket(tk, ticket_id) == IF ticket_id \in DOMAIN tk THEN tk[ticket_id] ELSE None

\* A lookup result that is never taken for missing.
delete_ticket_not_found_never(ticket) == FALSE

\* api/tickets.py:340: `if not ticket`.
delete_ticket_not_found(ticket) == ticket = None

\* api/tickets.py:349: the seat id read from the ticket that was looked up.
ticket_seat_id(ticket) == IF ticket = None THEN NoSeat ELSE ticket.seat_id

\* api/tickets.py:339-346: look the ticket up, 404 when absent.
CancelStart(r) ==
    /\ CanStart(r)
    /\ \E tid \in TicketIds :
          LET ticket == get_ticket(tickets, tid)
          IN  IF delete_ticket_not_found(ticket)
              THEN Finish(r, "cancel", NoSeat, "404")
              ELSE /\ pc' = [pc EXCEPT ![r] = "release"]
                   /\ loc' = [loc EXCEPT ![r] = [op |-> "cancel", seat |-> ticket_seat_id(ticket),
                                                  tid |-> tid, snap |-> None, seat_reserved |-> FALSE]]
                   /\ result' = [result EXCEPT ![r] = "none"]
    /\ UNCHANGED <<seats, tickets, winners, trains, wagons>>

\* A handler that goes on to the DELETE without releasing the seat.
delete_ticket_release_skipped(st, seat_id) == st

\* api/tickets.py:349: `await seat_service.release_seat(ticket.seat_id)`;
\* SeatService.release_seat delegates to SeatRepository.release_seat.
delete_ticket_release(st, seat_id) == release_seat(st, seat_id)

\* api/tickets.py:348-349.
CancelRelease(r) ==
    /\ pc[r] = "release"
    /\ seats' = delete_ticket_release(seats, loc[r].seat)
    /\ Goto(r, "delete")
    /\ UNCHANGED <<tickets, winners, trains, wagons>>

\* api/tickets.py:352-354 with TicketRepository.delete_ticket: the DELETE commits,
\* or it raises, is rolled back and False is returned; the handler does not look
\* at the value and answers with the success message either way.
CancelDelete(r) ==
    /\ pc[r] = "delete"
    /\ \/ tickets' = delete_ticket_row(tickets, loc[r].tid)
       \/ UNCHANGED tickets
    /\ Finish(r, "cancel", NoSeat, "200")
    /\ UNCHANGED <<seats, winners, trains, wagons>>

Next ==
    \E r \in Reqs :
        \/ CreateStart(r)
        \/ CreateTrySelect(r)
        \/ CreateTryCommit(r)
        \/ CreatePrice(r)
        \/ CreateInsert(r)
        \/ CreateRespond(r)
        \/ CreateCompensate(r)
        \/ CancelStart(r)
        \/ CancelRelease(r)
        \/ CancelDelete(r)
        \/ Return(r)

Spec == Init /\ [][Next]_vars

\* ------------------------------------------- SeatRepository, called directly
\* try_reserve_seat, lines 132-137: the SELECT of the row.
RepoTrySelect(c) ==
    /\ CanStart(c)
    /\ \E s \in SeatInputs :
          /\ pc' = [pc EXCEPT ![c] = "repo_commit"]
          /\ loc' = [loc EXCEPT ![c] = [op |-> "try_reserve", seat |-> s, tid |-> 0,
                                         snap |-> get_seat(seats, s), seat_reserved |-> FALSE]]
          /\ result' = [result EXCEPT ![c] = "none"]
    /\ UNCHANGED <<seats, tickets, winners, trains, wagons>>

\* try_reserve_seat, lines 139-149: check of the row read, write, commit, return.
RepoTryCommit(c) ==
    /\ pc[c] = "repo_commit"
    /\ \E committed \in BOOLEAN :
          LET s == loc[c].seat
              out == try_reserve_commit(seats, s, loc[c].snap, committed)
          IN  /\ seats' = out.st
              /\ pc' = [pc EXCEPT ![c] = "done"]
              /\ result' = [result EXCEPT ![c] = IF out.ret THEN "true" ELSE "false"]
              /\ winners' = IF out.ret
                            THEN [winners EXCEPT ![s] = @ \cup {c}]
                            ELSE winners
    /\ UNCHANGED <<tickets, loc, trains, wagons>>

\* release_seat, lines 118-126.  A release ends the hold of whoever won the seat.
RepoRelease(c) ==
    /\ CanStart(c)
    /\ \E s \in SeatInputs :
          /\ seats' = release_seat(seats, s)
          /\ Finish(c, "release", s, "ok")
          /\ winners' = [w \in SeatIds |-> IF w = s THEN {} ELSE winners[w]]
    /\ UNCHANGED <<tickets, trains, wagons>>

\* reserve_seat, lines 109-116.
RepoReserve(c) ==
    /\ CanStart(c)
    /\ \E s \in SeatInputs :
          /\ seats' = reserve_seat(seats, s)
          /\ Finish(c, "reserve", s, "ok")
    /\ UNCHANGED <<tickets, winners, trains, wagons>>

\* update_seat_availability, lines 101-107.
RepoUpdateAvailability(c) ==
    /\ CanStart(c)
    /\ \E s \in SeatInputs, a \in BOOLEAN :
          /\ seats' = update_seat_availability(seats, s, a)
          /\ Finish(c, "update_availability", s, "ok")
    /\ UNCHANGED <<tickets, winners, trains, wagons>>

NextRepo ==
    \E c \in Reqs :
        \/ RepoTrySelect(c)
        \/ RepoTryCommit(c)
        \/ RepoRelease(c)
        \/ RepoReserve(c)
        \/ RepoUpdateAvailability(c)
        \/ Return(c)

SpecRepo == Init /\ [][NextRepo]_vars

\* ------------------------------------------ create_ticket, request cancelled
\* api/tickets.py:277-294: the except block catches Exception.  A request whose
\* task is cancelled at one of the awaits of the try block (asyncio.CancelledError
\* is a BaseException), or whose process stops there, leaves the handler without
\* running the except block: no release_seat, no response.
CreateAbort(r) ==
    /\ pc[r] \in {"price", "insert"}
    /\ Finish(r, "create", NoSeat, "aborted")
    /\ UNCHANGED <<seats, tickets, winners, trains, wagons>>

\* The steps of a request that is inside a handler: the event loop resumes every
\* coroutine whose await has completed.
Resume(r) ==
    \/ CreateTrySelect(r)
    \/ CreateTryCommit(r)
    \/ CreatePrice(r)
    \/ CreateInsert(r)
    \/ CreateRespond(r)
    \/ CreateCompensate(r)
    \/ CancelRelease(r)
    \/ CancelDelete(r)

NextAbort ==
    \/ Next
    \/ \E r \in Reqs : CreateAbort(r)

SpecAbort ==
    /\ Init
    /\ [][NextAbort]_vars
    /\ \A r \in Reqs : WF_vars(Resume(r))

\* --------------------------------- TicketService, called directly; pay_ticket
MaxNumber == 2

\* TicketService._generate_ticket_number draws 8 hex digits of a uuid4: any
\* number of the space may come out, also one that is already stored.
TicketNumbers == 1..MaxNumber

\* The train a booking is made on: its id and its times, counted in hours.
BookedTrain == [id |-> 1, departure_time |-> 2, arrival_time |-> 6]

\* TicketService.create_ticket, lines 169-184: the row built for a booking, with
\* departure_time and arrival_time copied from the train.
new_ticket(seat_id, ticket_number) ==
    [seat_id |-> seat_id, is_paid |-> FALSE, ticket_number |-> ticket_number,
     train_id |-> BookedTrain.id,
     departure_time |-> BookedTrain.departure_time,
     arrival_time |-> BookedTrain.arrival_time]

\* A store without the unique index on ticket_number.
ticket_number_free_unchecked(tk, ticket_number) == TRUE

\* Ticket.ticket_number is declared unique=True: the store refuses a row whose
\* number is already in the table.
ticket_number_free(tk, ticket_number) ==
    \A t \in DOMAIN tk : tk[t].ticket_number /= ticket_number

\* TicketRepository.create_ticket, lines 156-157: add and commit.
add_ticket(tk, ticket) ==
    LET id == NextTicketId(tk)
    IN  [t \in DOMAIN tk \cup {id} |-> IF t = id THEN ticket ELSE tk[t]]

\* update_ticket_payment that finds the row and writes nothing.
update_ticket_payment_no_write(tk, ticket_id, is_paid) == tk

\* update_ticket_payment that also takes the ticket off its seat.
update_ticket_payment_clears_seat(tk, ticket_id, is_paid) ==
    IF get_ticket(tk, ticket_id) /= None
    THEN [tk EXCEPT ![ticket_id].is_paid = is_paid, ![ticket_id].seat_id = NoSeat]
    ELSE tk

\* TicketRepository.update_ticket_payment, lines 179-185.
update_ticket_payment(tk, ticket_id, is_paid) ==
    IF get_ticket(tk, ticket_id) /= None
    THEN [tk EXCEPT ![ticket_id].is_paid = is_paid]
    ELSE tk

\* A pay_ticket that flips the flag.
pay_ticket_toggle(tk, ticket_id) ==
    IF get_ticket(tk, ticket_id) /= None
    THEN [tk EXCEPT ![ticket_id].is_paid = ~@]
    ELSE tk

\* TicketService.pay_ticket, lines 204-206.
pay_ticket(tk, ticket_id) == update_ticket_payment(tk, ticket_id, TRUE)

\* TicketService.create_ticket, lines 166-187: the row is built, then
\* reserve_seat commits the hold.
SvcCreateReserve(c) ==
    /\ CanStart(c)
    /\ \E s \in SeatIds :
          /\ seats' = reserve_seat(seats, s)
          /\ pc' = [pc EXCEPT ![c] = "svc_insert"]
          /\ loc' = [loc EXCEPT ![c] = [op |-> "create_ticket", seat |-> s, tid |-> 0,
                                         snap |-> None, seat_reserved |-> FALSE]]
          /\ result' = [result EXCEPT ![c] = "none"]
    /\ UNCHANGED <<tickets, winners, trains, wagons>>

\* TicketService.create_ticket, line 190: TicketRepository.create_ticket commits
\* the row with the number that was generated, or the commit raises
\* IntegrityError on the unique index.
SvcCreateInsert(c) ==
    /\ pc[c] = "svc_insert"
    /\ \E n \in TicketNumbers :
          IF ticket_number_free(tickets, n)
          THEN /\ NextTicketId(tickets) <= MaxTicketId
               /\ tickets' = add_ticket(tickets, new_ticket(loc[c].seat, n))
               /\ Finish(c, "create_ticket", NoSeat, "ok")
          ELSE /\ UNCHANGED tickets
               /\ Finish(c, "create_ticket", NoSeat, "error")
    /\ UNCHANGED <<seats, winners, trains, wagons>>

\* TicketService.delete_ticket, lines 200-202, TicketRepository.delete_ticket.
SvcDeleteTicket(c) ==
    /\ CanStart(c)
    /\ \E tid \in TicketIds :
          \/ /\ tickets' = delete_ticket_row(tickets, tid)
             /\ Finish(c, "delete_ticket", NoSeat, "true")
          \/ /\ UNCHANGED tickets
             /\ Finish(c, "delete_ticket", NoSeat, "false")
    /\ UNCHANGED <<seats, winners, trains, wagons>>

\* api/tickets.py:364-366: pay_ticket looks the ticket up, 404 when absent.
PayStart(r) ==
    /\ CanStart(r)
    /\ \E tid \in TicketIds :
          IF get_ticket(tickets, tid) = None
          THEN Finish(r, "pay", NoSeat, "404")
          ELSE /\ pc' = [pc EXCEPT ![r] = "pay"]
               /\ loc' = [loc EXCEPT ![r] = [op |-> "pay", seat |-> NoSeat, tid |-> tid,
                                              snap |-> None, seat_reserved |-> FALSE]]
               /\ result' = [result EXCEPT ![r] = "none"]
    /\ UNCHANGED <<seats, tickets, winners, trains, wagons>>

\* api/tickets.py:373-374: TicketService.pay_ticket.  The repository returns None
\* when the ticket has gone since the lookup, which the response model rejects.
PayUpdate(r) ==
    /\ pc[r] = "pay"
    /\ tickets' = pay_ticket(tickets, loc[r].tid)
    /\ Finish(r, "pay", NoSeat,
              IF get_ticket(tickets, loc[r].tid) /= None THEN "200" ELSE "500")
    /\ UNCHANGED <<seats, winners, trains, wagons>>

NextTicket ==
    \E c \in Reqs :
        \/ SvcCreateReserve(c)
        \/ SvcCreateInsert(c)
        \/ SvcDeleteTicket(c)
        \/ PayStart(c)
        \/ PayUpdate(c)
        \/ Return(c)

SpecTicket == Init /\ [][NextTicket]_vars

\* ------------------------------------------------------------------ pricing
\* Prices are floats in the code; here they are fixed-point numbers counted in
\* thousandths, price multipliers are counted in tenths and discount rates in
\* hundredths, so that every product below is exact.

\* DiscountService.DISCOUNT_RATES with pensioner given the student rate.
DISCOUNT_RATES_pensioner_as_student ==
    [child |-> 50, student |-> 25, pensioner |-> 25, none |-> 0]

\* DiscountService.DISCOUNT_RATES, in hundredths.
DISCOUNT_RATES ==
    [child |-> 50, student |-> 25, pensioner |-> 40, none |-> 0]

\* DiscountService.get_discount_percent: DISCOUNT_RATES.get(discount_type, 0.0).
get_discount_percent(discount_type) ==
    IF discount_type \in DOMAIN DISCOUNT_RATES THEN DISCOUNT_RATES[discount_type] ELSE 0

\* DiscountService.calculate_final_price: final_price and discount_percent * 100
\* (a rate of 25 hundredths is reported as 25 percent).
calculate_final_price(base_price, discount_type) ==
    LET discount_percent == get_discount_percent(discount_type)
        discount_amount == (base_price * discount_percent) \div 100
    IN  [final_price |-> base_price - discount_amount, discount_percent |-> discount_percent]

\* TicketService.calculate_price, lines 149-157.
calculate_price(train, wagon, discount_type) ==
    LET base_price == (train.base_price * wagon.price_multiplier) \div 10
        out == calculate_final_price(base_price, discount_type)
    IN  [base_price |-> base_price,
         discount_percent |-> out.discount_percent,
         final_price |-> out.final_price,
         discount_type |-> discount_type]

\* Train.base_price and Wagon.price_multiplier values of the sample data, and a
\* price of one unit.
BasePrices == {1000, 2000000, 2500000}

Multipliers == {10, 15, 20}

\* DiscountTypeEnum: the values the request schemas accept.
DiscountTypeEnum == {"child", "student", "pensioner", "none"}

\* What a caller may pass as discount category.
DiscountInputs == DiscountTypeEnum \cup {"vip"}

\* TicketService.calculate_price called with a train, a wagon and a category.
SvcCalculatePrice(c) ==
    /\ CanStart(c)
    /\ \E p \in BasePrices, m \in Multipliers, d \in DiscountInputs :
          LET train == [base_price |-> p]
              wagon == [price_multiplier |-> m]
          IN  /\ pc' = [pc EXCEPT ![c] = "done"]
              /\ loc' = [loc EXCEPT ![c] = [op |-> "calculate_price", train |-> train,
                                             wagon |-> wagon, discount_type |-> d]]
              /\ result' = [result EXCEPT ![c] = calculate_price(train, wagon, d)]
    /\ UNCHANGED <<seats, tickets, winners, trains, wagons>>

NextPricing ==
    \E c \in Reqs :
        \/ SvcCalculatePrice(c)
        \/ Return(c)

SpecPricing == Init /\ [][NextPricing]_vars

\* ----------------------------------------- calculate-price handler (Quote)
\* The stored train and wagon: train 2 and a coupe wagon of the sample data.
get_train(train_id) == IF train_id \in Trains THEN [base_price |-> 2000000] ELSE None

get_wagon(wagon_id) == IF wagon_id \in Wagons THEN [price_multiplier |-> 15] ELSE None

\* A member of DiscountTypeEnum: its name and its value.
enum_member(v) ==
    [name |-> CASE v = "child" -> "CHILD"
                [] v = "student" -> "STUDENT"
                [] v = "pensioner" -> "PENSIONER"
                [] OTHER -> "NONE",
     value |-> v]

\* A member used as a key by its name.
dict_key_by_name(member) == member.name

\* DiscountTypeEnum is a str subclass: as a dict key a member hashes and compares
\* as its value (services/ticket_service.py:166 passes the member itself).
dict_key(member) == member.value

\* A quote that holds the seat named in the request.
calculate_price_seats_reserving(st, seat_id) == reserve_seat(st, seat_id)

\* api/tickets.py:192-208: PriceCalculationRequest carries a seat_id, the handler
\* calls no seat or ticket repository method with it.
calculate_price_seats(st, seat_id) == st

\* api/tickets.py:192-208: the request body is validated against
\* PriceCalculationRequest (422 when discount_type is not a DiscountTypeEnum
\* value), train and wagon are looked up (404), the price is returned.
Quote(r) ==
    /\ CanStart(r)
    /\ \E t \in TrainInputs, w \in WagonInputs, s \in SeatInputs, d \in DiscountInputs :
          /\ seats' = calculate_price_seats(seats, s)
          /\ pc' = [pc EXCEPT ![r] = "done"]
          /\ IF d \notin DiscountTypeEnum
             THEN /\ loc' = [loc EXCEPT ![r] = [op |-> "quote", discount_type |-> d]]
                  /\ result' = [result EXCEPT ![r] = [status |-> "422"]]
             ELSE IF get_train(t) = None \/ get_wagon(w) = None
             THEN /\ loc' = [loc EXCEPT ![r] = [op |-> "quote"]]
                  /\ result' = [result EXCEPT ![r] = [status |-> "404"]]
             ELSE /\ loc' = [loc EXCEPT ![r] = [op |-> "quote", discount_type |-> d]]
                  /\ result' = [result EXCEPT ![r] =
                         [status |-> "200",
                          body |-> calculate_price(get_train(t), get_wagon(w),
                                                   enum_member(d).value)]]
    /\ UNCHANGED <<tickets, winners, trains, wagons>>

\* TicketService.create_ticket, lines 166-184: the row built from the prices the
\* handler passes; discount_percent is computed again, from the enum member.
priced_ticket(seat_id, member, base_price, final_price) ==
    [seat_id |-> seat_id,
     is_paid |-> FALSE,
     discount_type |-> member.value,
     discount_percent |-> calculate_final_price(base_price, dict_key(member)).discount_percent,
     base_price |-> base_price,
     final_price |-> final_price]

\* api/tickets.py:279-287 with TicketService.create_ticket up to reserve_seat:
\* calculate_price for the validated category, then the hold.
PricedCreateReserve(c) ==
    /\ CanStart(c)
    /\ \E s \in SeatIds, d \in DiscountTypeEnum :
          /\ seats' = reserve_seat(seats, s)
          /\ pc' = [pc EXCEPT ![c] = "priced_insert"]
          /\ loc' = [loc EXCEPT ![c] = [op |-> "create_priced", seat |-> s, discount_type |-> d]]
          /\ result' = [result EXCEPT ![c] = "none"]
    /\ UNCHANGED <<tickets, winners, trains, wagons>>

\* TicketRepository.create_ticket: the priced row is committed.
PricedCreateInsert(c) ==
    /\ pc[c] = "priced_insert"
    /\ NextTicketId(tickets) <= MaxTicketId
    /\ LET member == enum_member(loc[c].discount_type)
           price_calc == calculate_price(get_train(1), get_wagon(1), member.value)
       IN  tickets' = add_ticket(tickets,
                          priced_ticket(loc[c].seat, member,
                                        price_calc.base_price, price_calc.final_price))
    /\ pc' = [pc EXCEPT ![c] = "done"]
    /\ loc' = [loc EXCEPT ![c] = [op |-> "create_priced"]]
    /\ result' = [result EXCEPT ![c] = "ok"]
    /\ UNCHANGED <<seats, winners, trains, wagons>>

NextQuote ==
    \E r \in Reqs :
        \/ Quote(r)
        \/ PricedCreateReserve(r)
        \/ PricedCreateInsert(r)
        \/ Return(r)

SpecQuote == Init /\ [][NextQuote]_vars

\* ------------------------------ delete_ticket on tickets made by the service
\* The delete_ticket handler run against tickets stored by
\* TicketService.create_ticket.
NextCancel ==
    \E r \in Reqs :
        \/ SvcCreateReserve(r)
        \/ SvcCreateInsert(r)
        \/ CancelStart(r)
        \/ CancelRelease(r)
        \/ CancelDelete(r)
        \/ Return(r)

SpecCancel == Init /\ [][NextCancel]_vars

\* ------------------------------------ create_train and create_wagon handlers
\* Times of day, counted in hours.
Times == {2, 6}

\* What a request body may carry as departure_time: a datetime, or text that
\* does not parse as one.
DepartureInputs ==
    {[parsed |-> TRUE, value |-> t] : t \in Times} \cup {[parsed |-> FALSE, value |-> 0]}

\* The fields validated before arrival_time (info.data): departure_time is among
\* them only when it parsed.
info_data(departure) ==
    IF departure.parsed
    THEN [departure_time |-> departure.value]
    ELSE [f \in {} |-> 0]

\* A validator that refuses an arrival before the departure only.
arrival_after_departure_strictly_before(v, data) ==
    ~("departure_time" \in DOMAIN data /\ v < data.departure_time)

\* TrainBase.arrival_after_departure, schemes/ticket_schemes.py:31-36: raises
\* when `'departure_time' in info.data and v <= info.data['departure_time']`;
\* TRUE when the value is accepted.
arrival_after_departure(v, data) ==
    ~("departure_time" \in DOMAIN data /\ v <= data.departure_time)

\* TrainCreate validation of the two times: every field must validate.
TrainCreate_valid(departure, arrival) ==
    /\ departure.parsed
    /\ arrival_after_departure(arrival, info_data(departure))

NextId(table) == IF DOMAIN table = {} THEN 1 ELSE MaxOf(DOMAIN table) + 1

\* TrainRepository.create_train / WagonRepository.create_wagon /
\* SeatRepository.create_seat: add the row and commit.
add_row(table, row) ==
    LET id == NextId(table)
    IN  [k \in DOMAIN table \cup {id} |-> IF k = id THEN row ELSE table[k]]

\* The base price a new train is given: that of train 1 of the sample data.
TrainPriceInputs == {2500000}

\* api/tickets.py:44-51: the body is validated against TrainCreate (422), then
\* TrainService.create_train stores Train(**train_data.model_dump()).
CreateTrain(r) ==
    /\ CanStart(r)
    /\ \E departure \in DepartureInputs, arrival \in Times, p \in TrainPriceInputs :
          /\ pc' = [pc EXCEPT ![r] = "done"]
          /\ loc' = [loc EXCEPT ![r] = [op |-> "create_train", departure |-> departure,
                                         arrival_time |-> arrival]]
          /\ IF TrainCreate_valid(departure, arrival)
             THEN /\ NextId(trains) <= MaxTrainId
                  /\ trains' = add_row(trains, [base_price |-> p,
                                                departure_time |-> departure.value,
                                                arrival_time |-> arrival])
                  /\ result' = [result EXCEPT ![r] = "200"]
             ELSE /\ UNCHANGED trains
                  /\ result' = [result EXCEPT ![r] = "422"]
    /\ UNCHANGED <<seats, tickets, winners, wagons>>

\* WagonTypeEnum: the wagon types the request schema accepts.
WagonTypeEnum == {"platzkart", "coupe", "suite"}

\* WagonService.WAGON_TYPE_MULTIPLIERS, in tenths.
WAGON_TYPE_MULTIPLIERS == [platzkart |-> 10, coupe |-> 15, suite |-> 20]

\* WagonBase.price_multiplier: a float > 0 of the caller's choice, 1.0 when the
\* body leaves it out.
PriceMultiplierDefault == [given |-> FALSE, value |-> 10]

PriceMultiplierInputs ==
    {[given |-> TRUE, value |-> m] : m \in Multipliers} \cup {PriceMultiplierDefault}

\* api/tickets.py:126 with WagonService.create_wagon: Wagon(**wagon_data.model_dump())
\* is stored as the body gave it.  The store does not check train_id (SQLite
\* enforces no foreign key unless asked to).
CreateWagon(r) ==
    /\ CanStart(r)
    /\ NextId(wagons) <= MaxWagonId
    /\ \E t \in TrainInputs, wagon_type \in WagonTypeEnum, m \in PriceMultiplierInputs :
          /\ wagons' = add_row(wagons, [train_id |-> t, wagon_type |-> wagon_type,
                                        price_multiplier |-> m.value, seats |-> {}])
          /\ pc' = [pc EXCEPT ![r] = "create_seats"]
          /\ loc' = [loc EXCEPT ![r] = [op |-> "create_wagon", wagon_id |-> NextId(wagons)]]
          /\ result' = [result EXCEPT ![r] = "none"]
    /\ UNCHANGED <<seats, tickets, winners, trains>>

\* api/tickets.py:128-129 with SeatService.create_seats: the seats of the wagon
\* are stored, each with the column defaults (Free) and the wagon's id; here a
\* wagon of one seat.
CreateWagonSeats(r) ==
    /\ pc[r] = "create_seats"
    /\ seats' = add_row(seats, Free)
    /\ wagons' = [wagons EXCEPT ![loc[r].wagon_id].seats = @ \cup {NextId(seats)}]
    /\ pc' = [pc EXCEPT ![r] = "done"]
    /\ loc' = [loc EXCEPT ![r] = [op |-> "create_wagon"]]
    /\ result' = [result EXCEPT ![r] = "200"]
    /\ UNCHANGED <<tickets, winners, trains>>

NextAdmin ==
    \E r \in Reqs :
        \/ CreateTrain(r)
        \/ CreateWagon(r)
        \/ CreateWagonSeats(r)
        \/ Return(r)

SpecAdmin == Init /\ [][NextAdmin]_vars

\* ------------------------- try_reserve_seat, statement by statement (locks)
\* The store's lock as SQLite takes it: none is kept once the SELECT has returned
\* (with_for_update renders nothing), the UPDATE flushed by session.commit()
\* takes the database write lock, COMMIT or ROLLBACK gives it back.
HoldsLock(c) == "holds_lock" \in DOMAIN loc[c] /\ loc[c].holds_lock

LockFree == \A c \in Reqs : ~HoldsLock(c)

\* A commit that flushes the UPDATE and never ends the transaction.
session_commit_flush_only(holds_lock) == holds_lock

\* session.commit(), line 145, and session.rollback(), line 148: the transaction
\* ends and its lock is given back.
session_commit(holds_lock) == FALSE

\* try_reserve_seat, lines 132-137: the SELECT of the row.
LockTrySelect(c) ==
    /\ CanStart(c)
    /\ \E s \in SeatInputs :
          /\ pc' = [pc EXCEPT ![c] = "lock_check"]
          /\ loc' = [loc EXCEPT ![c] = [op |-> "try_reserve", seat |-> s,
                                         snap |-> get_seat(seats, s), holds_lock |-> FALSE]]
          /\ result' = [result EXCEPT ![c] = "none"]
    /\ UNCHANGED <<seats, tickets, winners, trains, wagons>>

\* try_reserve_seat, lines 139-145: `return False` on a row that fails the check;
\* otherwise the flags are set and session.commit() flushes the UPDATE, which
\* takes the write lock, or raises when another session holds it (lines 147-149:
\* rollback, return False).
LockTryFlush(c) ==
    /\ pc[c] = "lock_check"
    /\ IF ~try_reserve_passes(loc[c].snap)
       THEN /\ pc' = [pc EXCEPT ![c] = "done"]
            /\ result' = [result EXCEPT ![c] = "false"]
            /\ UNCHANGED loc
       ELSE IF LockFree
       THEN /\ pc' = [pc EXCEPT ![c] = "lock_commit"]
            /\ loc' = [loc EXCEPT ![c].holds_lock = TRUE]
            /\ UNCHANGED result
       ELSE /\ pc' = [pc EXCEPT ![c] = "done"]
            /\ loc' = [loc EXCEPT ![c].holds_lock = session_commit(@)]
            /\ result' = [result EXCEPT ![c] = "false"]
    /\ UNCHANGED <<seats, tickets, winners, trains, wagons>>

\* try_reserve_seat, lines 145-149: the COMMIT makes the write visible and
\* `return True` follows, or it raises and the except block rolls back and
\* returns False.
LockTryCommit(c) ==
    /\ pc[c] = "lock_commit"
    /\ pc' = [pc EXCEPT ![c] = "done"]
    /\ loc' = [loc EXCEPT ![c].holds_lock = session_commit(@)]
    /\ \/ /\ seats' = try_reserve_write(seats, loc[c].seat)
          /\ result' = [result EXCEPT ![c] = "true"]
       \/ /\ UNCHANGED seats
          /\ result' = [result EXCEPT ![c] = "false"]
    /\ UNCHANGED <<tickets, winners, trains, wagons>>

\* release_seat, lines 118-126, by a caller that finds the write lock free.
LockRelease(c) ==
    /\ CanStart(c)
    /\ LockFree
    /\ \E s \in SeatInputs :
          /\ seats' = release_seat(seats, s)
          /\ pc' = [pc EXCEPT ![c] = "done"]
          /\ loc' = [loc EXCEPT ![c] = [op |-> "release", seat |-> s, holds_lock |-> FALSE]]
          /\ result' = [result EXCEPT ![c] = "ok"]
    /\ UNCHANGED <<tickets, winners, trains, wagons>>

NextLock ==
    \E c \in Reqs :
        \/ LockTrySelect(c)
        \/ LockTryFlush(c)
        \/ LockTryCommit(c)
        \/ LockRelease(c)
        \/ Return(c)

SpecLock == Init /\ [][NextLock]_vars

\* ------------------------------- create_ticket (handler), the call as written
\* api/tickets.py:273 calls seat_service.try_reserve_seat on a SeatService
\* (services/ticket_service.py:90-131), which has no attribute of that name: the
\* call raises AttributeError.  Line 273 is outside the try block, so no release
\* runs and the request is answered 500.
CreateTryReserveAttributeError(r) ==
    /\ pc[r] = "try_select"
    /\ Finish(r, "create", NoSeat, "500")
    /\ UNCHANGED <<seats, tickets, winners, trains, wagons>>

\* The create_ticket and delete_ticket handlers as written, with tickets stored
\* by TicketService.create_ticket.
NextEndpoint ==
    \E r \in Reqs :
        \/ CreateStart(r)
        \/ CreateTryReserveAttributeError(r)
        \/ SvcCreateReserve(r)
        \/ SvcCreateInsert(r)
        \/ CancelStart(r)
        \/ CancelRelease(r)
        \/ CancelDelete(r)
        \/ Return(r)

SpecEndpoint == Init /\ [][NextEndpoint]_vars

\* ----------------------------------- create_ticket with more than one train
\* create_ticket requests that may name any train id the store can hold.
CreateStartAnyTrain(r) ==
    /\ CanStart(r)
    /\ create_ticket_lookups(r, 0..MaxTrainId)

\* The create_train handler next to the create_ticket handler.
NextRefs ==
    \E r \in Reqs :
        \/ CreateTrain(r)
        \/ CreateStartAnyTrain(r)
        \/ CreateTrySelect(r)
        \/ CreateTryCommit(r)
        \/ CreatePrice(r)
        \/ CreateInsert(r)
        \/ CreateRespond(r)
        \/ CreateCompensate(r)
        \/ Return(r)

SpecRefs == Init /\ [][NextRefs]_vars

\* ================================================================== claims
IsFree(seat) == seat = Free

IsHeld(seat) == seat = Held

\* A caller's try_reserve_seat call returns in this step.
TryReserveReturns(c) == pc[c] = "repo_commit" /\ pc'[c] = "done"

\* A caller's release_seat call runs in this step.
ReleaseRuns(c) == pc[c] = "idle" /\ pc'[c] = "done" /\ loc'[c].op = "release"

\* C1: for a Free seat, of the callers whose concurrent try_reserve_seat calls
\* have returned true since the seat was last released there is exactly one, never
\* two: the seat is never held by two callers.
C1_ExactlyOneWinner ==
    \A s \in SeatIds : Cardinality(winners[s]) <= 1

\* C7: a try_reserve_seat call that found no row, or a row with is_available
\* false or is_reserved true, returns False (no error) and leaves every seat as
\* it was.
C7_RefusalChangesNothing ==
    [][\A c \in Reqs :
          LET row == loc[c].snap
          IN  (/\ TryReserveReturns(c)
               /\ (row = None \/ ~row.is_available \/ row.is_reserved))
              => (result'[c] = "false" /\ seats' = seats)]_vars

C7_Witness ==
    \E c1, c2 \in Reqs :
        /\ c1 /= c2
        /\ pc[c1] = "done" /\ loc[c1].op = "try_reserve" /\ result[c1] = "false"
        /\ loc[c1].snap = None
        /\ pc[c2] = "done" /\ loc[c2].op = "try_reserve" /\ result[c2] = "false"
        /\ loc[c2].snap = [is_available |-> TRUE, is_reserved |-> TRUE]

\* C8: release_seat is idempotent: a release returns without error, leaves the
\* seat Free and every other seat alone, changes nothing when the seat was Free
\* already, and a second release right after it changes nothing more.
C8_ReleaseIdempotent ==
    [][\A c \in Reqs :
          ReleaseRuns(c) =>
              LET s == loc'[c].seat
              IN  /\ result'[c] = "ok"
                  /\ s \in SeatIds => IsFree(seats'[s])
                  /\ \A o \in SeatIds \ {s} : seats'[o] = seats[o]
                  /\ (s \in SeatIds /\ IsFree(seats[s])) => seats' = seats
                  /\ s \notin SeatIds => seats' = seats
                  /\ release_seat(seats', s) = seats']_vars

C8_Witness ==
    \E c1, c2 \in Reqs, s \in SeatIds :
        /\ c1 /= c2
        /\ pc[c1] = "done" /\ loc[c1].op = "release" /\ loc[c1].seat = s
        /\ pc[c2] = "done" /\ loc[c2].op = "release" /\ loc[c2].seat = s
        /\ result[c1] = "ok" /\ result[c2] = "ok"
        /\ IsFree(seats[s])

\* C10: the try_reserve_seat and release_seat calls on one seat are linearizable:
\* a call returns true only when every earlier call that returned true for the
\* seat has been followed by a release of it.
C10_ReleaseBetweenWins ==
    [][\A c \in Reqs :
          (TryReserveReturns(c) /\ result'[c] = "true")
              => winners[loc[c].seat] = {}]_vars

\* A create_ticket request for seat s is between its start and its response.
CreateInProgress(r, s) ==
    loc[r].op = "create" /\ pc[r] \notin {"idle", "done"} /\ loc[r].seat = s

\* A delete_ticket request for ticket t is between its lookup and its response.
CancelInProgress(r, t) ==
    loc[r].op = "cancel" /\ pc[r] \in {"release", "delete"} /\ loc[r].tid = t

TicketsOf(s) == {t \in DOMAIN tickets : tickets[t].seat_id = s}

\* C2: at most one ticket exists for any seat, whatever the interleaving of the
\* requests.
C2_OneTicketPerSeat ==
    \A s \in SeatIds : Cardinality(TicketsOf(s)) <= 1

C4_TicketSeatIsHeld ==
    \A t \in DOMAIN tickets :
        (\A r \in Reqs : ~CancelInProgress(r, t))
            => IsHeld(seats[tickets[t].seat_id])

\* C5: a seat that no create_ticket request is working on is Held only if a
\* ticket references it.
C5_HeldSeatHasTicket ==
    \A s \in SeatIds :
        ((\A r \in Reqs : ~CreateInProgress(r, s)) /\ IsHeld(seats[s]))
            => TicketsOf(s) /= {}

C9_CancelFreesSeat ==
    [][\A r \in Reqs :
          (pc[r] = "delete" /\ pc'[r] = "done")
              => LET s == loc[r].seat
                 IN  /\ result'[r] = "200"
                     /\ loc[r].tid \notin DOMAIN tickets'
                     /\ \/ try_reserve_passes(get_seat(seats', s))
                        \/ \E q \in Reqs : CreateInProgress(q, s)
                        \/ \E t \in DOMAIN tickets' : tickets'[t].seat_id = s]_vars

\* C11: every hold is eventually resolved: once a create_ticket request has got
\* True from TryReserve for seat s, eventually a ticket for s is stored or s is
\* Free again, also when the request is aborted between hold and persistence.
C11_HoldEventuallyResolved ==
    \A r \in Reqs, s \in SeatIds :
        (pc[r] = "price" /\ loc[r].seat = s /\ loc[r].seat_reserved)
            ~> (TicketsOf(s) /= {} \/ IsFree(seats[s]))

\* A delete_ticket request starts in this step.
CancelStarts(r) == pc[r] = "idle" /\ pc'[r] /= "idle" /\ loc'[r].op = "cancel"

\* C12: delete_ticket on a ticket id that is not stored fails with 404 and
\* changes no seat and no ticket: a request goes past the lookup only with the id
\* of a stored ticket, and otherwise answers 404 in a step that changes nothing.
C12_CancelMissingIsNotFound ==
    [][\A r \in Reqs :
          CancelStarts(r) =>
              IF pc'[r] = "release"
              THEN loc'[r].tid \in DOMAIN tickets
              ELSE /\ pc'[r] = "done"
                   /\ result'[r] = "404"
                   /\ seats' = seats
                   /\ tickets' = tickets]_vars

C12_Witness ==
    \E r \in Reqs, s \in SeatIds :
        /\ pc[r] = "done" /\ loc[r].op = "cancel" /\ result[r] = "404"
        /\ TicketsOf(s) /= {}
        /\ IsHeld(seats[s])

\* C13: in delete_ticket the release of the seat takes effect before the ticket
\* row is deleted: a request reaches its DELETE only by the step that leaves the
\* ticket's seat Free, that step deletes nothing, and no earlier step of the
\* request removes a ticket.
C13_ReleaseBeforeDelete ==
    [][\A r \in Reqs :
          /\ (pc'[r] = "delete" /\ pc[r] /= "delete")
                => /\ pc[r] = "release"
                   /\ tickets' = tickets
                   /\ loc[r].seat \in SeatIds
                   /\ IsFree(seats'[loc[r].seat])
          /\ (loc[r].op = "cancel" /\ pc'[r] /= pc[r] /\ tickets' /= tickets)
                => /\ pc[r] = "delete"
                   /\ seats' = seats]_vars

C13_Witness ==
    \E r \in Reqs :
        /\ pc[r] = "delete"
        /\ loc[r].tid \in DOMAIN tickets
        /\ tickets[loc[r].tid].seat_id = loc[r].seat
        /\ IsFree(seats[loc[r].seat])

\* A pay_ticket request starts in this step.
PayStarts(r) == pc[r] = "idle" /\ pc'[r] /= "idle" /\ loc'[r].op = "pay"

C15_TicketLifecycle ==
    [][\A t \in TicketIds :
          /\ (t \notin DOMAIN tickets /\ t \in DOMAIN tickets')
                => ~tickets'[t].is_paid
          /\ (t \in DOMAIN tickets /\ t \in DOMAIN tickets')
                => /\ tickets[t].is_paid => tickets'[t].is_paid
                   /\ tickets'[t] = [tickets[t] EXCEPT !.is_paid = tickets'[t].is_paid]]_vars

C15_Witness ==
    \E r1, r2 \in Reqs, t, p \in DOMAIN tickets :
        /\ ~tickets[t].is_paid
        /\ tickets[p].is_paid
        /\ pc[r1] = "done" /\ loc[r1].op = "pay" /\ result[r1] = "200"
        /\ pc[r2] = "done" /\ loc[r2].op = "delete_ticket" /\ result[r2] = "true"

\* C20: ticket numbers are unique: no two stored tickets carry the same
\* ticket_number, also when they are created concurrently; a generated number
\* that is already stored never gives a second ticket with it.
C20_TicketNumbersUnique ==
    \A t1, t2 \in DOMAIN tickets :
        t1 /= t2 => tickets[t1].ticket_number /= tickets[t2].ticket_number

C20_Witness ==
    \E c \in Reqs, t1, t2 \in DOMAIN tickets :
        /\ t1 /= t2
        /\ pc[c] = "done" /\ loc[c].op = "create_ticket" /\ result[c] = "error"

\* A caller's TicketService.calculate_price call returns in this step.
CalculatePriceReturns(c) ==
    pc[c] = "idle" /\ pc'[c] = "done" /\ loc'[c].op = "calculate_price"

\* The spec's discount table, in percent.
SpecDiscountPercent == [child |-> 50, student |-> 25, pensioner |-> 40, none |-> 0]

\* C17: for every train base price, wagon multiplier and discount category of
\* child, student, pensioner, none, the pricing engine returns
\* basePrice = trainBasePrice * wagonMultiplier, discountPercent = 50, 25, 40, 0
\* and finalPrice = basePrice * (1 - rate); category none gives
\* finalPrice = basePrice.
C17_PricingFormula ==
    [][\A c \in Reqs :
          (CalculatePriceReturns(c) /\ loc'[c].discount_type \in DOMAIN SpecDiscountPercent) =>
              LET p == loc'[c].train.base_price
                  m == loc'[c].wagon.price_multiplier
                  d == loc'[c].discount_type
                  out == result'[c]
              IN  /\ out.base_price * 10 = p * m
                  /\ out.discount_percent = SpecDiscountPercent[d]
                  /\ out.final_price * 100 = out.base_price * (100 - SpecDiscountPercent[d])
                  /\ d = "none" => out.final_price = out.base_price]_vars

\* The spec's example: base 2000, multiplier 1.5, student gives 3000, 25, 2250.
C17_Witness ==
    \E c \in Reqs :
        /\ pc[c] = "done" /\ loc[c].op = "calculate_price"
        /\ loc[c].train.base_price = 2000000
        /\ loc[c].wagon.price_multiplier = 15
        /\ loc[c].discount_type = "student"
        /\ result[c].base_price = 3000000
        /\ result[c].discount_percent = 25
        /\ result[c].final_price = 2250000

\* A calculate-price request is answered in this step.
QuoteReturns(r) == pc[r] = "idle" /\ pc'[r] = "done" /\ loc'[r].op = "quote"

\* C16: calculate-price is read-only: for every input, missing train or wagon
\* included, the request leaves every seat's flags and every ticket unchanged.
C16_QuoteReadOnly ==
    [][\A r \in Reqs :
          QuoteReturns(r) => (seats' = seats /\ tickets' = tickets)]_vars

C16_Witness ==
    \E r1, r2 \in Reqs, s \in SeatIds :
        /\ pc[r1] = "done" /\ loc[r1].op = "quote" /\ result[r1].status = "404"
        /\ pc[r2] = "done" /\ loc[r2].op = "quote" /\ result[r2].status = "200"
        /\ IsHeld(seats[s])
        /\ TicketsOf(s) /= {}

\* C18: an unknown or garbage discount category behaves as `none` in
\* calculate-price: the request is not refused for it, the discount percent is 0
\* and finalPrice equals basePrice.
C18_GarbageCategoryIsNone ==
    [][\A r \in Reqs :
          (/\ QuoteReturns(r)
           /\ "discount_type" \in DOMAIN loc'[r]
           /\ loc'[r].discount_type \notin DiscountTypeEnum)
              => /\ result'[r].status \in {"200", "404"}
                 /\ result'[r].status = "200"
                       => /\ result'[r].body.discount_percent = 0
                          /\ result'[r].body.final_price = result'[r].body.base_price]_vars

CreateStarts(r) == pc[r] = "idle" /\ pc'[r] /= "idle" /\ loc'[r].op = "create"

\* C21: create_ticket checks that the train and the wagon exist before any
\* reservation attempt: a request goes past the lookups only with a stored train
\* and a stored wagon, and otherwise answers 404; either way the step changes no
\* seat and stores no ticket.
C21_LookupsBeforeReservation ==
    [][\A r \in Reqs :
          CreateStarts(r) =>
              /\ seats' = seats
              /\ tickets' = tickets
              /\ IF pc'[r] = "try_select"
                 THEN loc'[r].train \in DOMAIN trains /\ loc'[r].wagon \in DOMAIN wagons
                 ELSE pc'[r] = "done" /\ result'[r] = "404"]_vars

C21_Witness ==
    \E r1, r2 \in Reqs, s \in SeatIds :
        /\ pc[r1] = "done" /\ loc[r1].op = "create" /\ result[r1] = "404"
        /\ pc[r2] = "try_select" /\ loc[r2].seat = s
        /\ IsFree(seats[s])
        /\ tickets = NoTickets

\* C22: in every reachable state the two flags of every seat are complementary
\* (is_reserved = not is_available): each seat is Free or Held, and no operation
\* of the seat repository writes one flag without the other.
C22_FlagsComplementary ==
    \A s \in SeatIds : seats[s].is_reserved = ~seats[s].is_available

\* C23: after a ticket is created no operation changes any of its fields other
\* than is_paid: while the row is stored its train, seat, ticket number and the
\* departure and arrival times copied from the train stay what they were.
C23_TicketFieldsImmutable ==
    [][\A t \in TicketIds :
          (t \in DOMAIN tickets /\ t \in DOMAIN tickets') =>
              /\ tickets'[t].seat_id = tickets[t].seat_id
              /\ tickets'[t].train_id = tickets[t].train_id
              /\ tickets'[t].ticket_number = tickets[t].ticket_number
              /\ tickets'[t].departure_time = tickets[t].departure_time
              /\ tickets'[t].arrival_time = tickets[t].arrival_time]_vars

C23_Witness ==
    \E r \in Reqs, t \in DOMAIN tickets, s \in SeatIds, n \in TicketNumbers :
        /\ pc[r] = "done" /\ loc[r].op = "pay" /\ result[r] = "200"
        /\ tickets[t] = [new_ticket(s, n) EXCEPT !.is_paid = TRUE]

\* C24: no operation swallows an error: when the deletion of the ticket row fails
\* during delete_ticket the failure reaches the caller, so a delete_ticket that
\* answers with success never leaves the ticket it was asked to delete stored.
C24_DeleteFailureSurfaces ==
    [][\A r \in Reqs :
          (pc[r] = "delete" /\ pc'[r] = "done" /\ loc[r].tid \in DOMAIN tickets')
              => result'[r] /= "200"]_vars

\* A create_train request is answered in this step.
CreateTrainReturns(r) == pc[r] = "idle" /\ pc'[r] = "done" /\ loc'[r].op = "create_train"

\* C25: a create_train request with arrival_time <= departure_time is refused
\* with a validation error before any state changes: no train is stored and no
\* seat, wagon or ticket changes.
C25_ArrivalAfterDeparture ==
    [][\A r \in Reqs :
          (/\ CreateTrainReturns(r)
           /\ loc'[r].departure.parsed
           /\ loc'[r].arrival_time <= loc'[r].departure.value)
              => /\ result'[r] = "422"
                 /\ trains' = trains
                 /\ seats' = seats
                 /\ wagons' = wagons
                 /\ tickets' = tickets]_vars

C25_Witness ==
    \E r1, r2 \in Reqs :
        /\ pc[r1] = "done" /\ loc[r1].op = "create_train" /\ result[r1] = "422"
        /\ loc[r1].departure.parsed
        /\ loc[r1].arrival_time = loc[r1].departure.value
        /\ pc[r2] = "done" /\ loc[r2].op = "create_train" /\ result[r2] = "200"
        /\ DOMAIN trains = {1, 2}

\* C26: every wagon's price multiplier is the one of its type: 1.0 for
\* platzkart, 1.5 for coupe, 2.0 for suite, for every wagon create_wagon can
\* store.
C26_MultiplierByType ==
    \A w \in DOMAIN wagons :
        wagons[w].price_multiplier = WAGON_TYPE_MULTIPLIERS[wagons[w].wagon_type]

C28_CreateOnFreeSeatSucceeds ==
    [][\A r \in Reqs :
          (/\ loc[r].op = "create"
           /\ pc[r] = "try_select"
           /\ pc'[r] /= "try_select"
           /\ loc[r].seat \in SeatIds
           /\ IsFree(seats[loc[r].seat]))
              => (pc'[r] /= "done" /\ result'[r] /= "500")]_vars

\* C29: when create_ticket ends with an error after having reserved the seat and
\* runs the compensating release, no ticket stored for that seat remains: a
\* failure after the ticket was persisted never leaves a stored ticket whose seat
\* the compensation has set Free.
C29_NoTicketAfterCompensation ==
    [][\A r \in Reqs :
          (pc[r] = "compensate" /\ pc'[r] = "done") =>
              \A t \in DOMAIN tickets' :
                  tickets'[t].seat_id = loc[r].seat => ~IsFree(seats'[loc[r].seat])]_vars

\* C30: every stored ticket is referentially consistent: the seat it references
\* belongs to the wagon it references, and that wagon belongs to the train it
\* references.
C30_TicketRefsConsistent ==
    \A t \in DOMAIN tickets :
        /\ tickets[t].wagon_id \in DOMAIN wagons
        /\ wagons[tickets[t].wagon_id].train_id = tickets[t].train_id
        /\ tickets[t].seat_id \in wagons[tickets[t].wagon_id].seats

====
